---- MODULE Spec2Model ----
(***************************************************************************)
(* Model of tools.py of HTPA32x32d: the timestamp matcher, the two Sample  *)
(* variants, and the file managers TPA_Preparer and TPA_Dataset_Maker.     *)
(*                                                                         *)
(* Strings that the code parses (file names, label keys, view ids) are     *)
(* sequences of one-character strings, so that split("ID"), split(".")     *)
(* and the glob pattern "*ID<id>.<ext>" are computed as the code computes  *)
(* them.  A path is a pair <<directory, file name>> (os.path.join).        *)
(***************************************************************************)
EXTENDS Integers, Sequences, FiniteSets, TLC

\* ------------------------------------------------------------------ bounds
\* most timestamp sequences handed to match_timesteps / views of one sample
MaxSeqs == 2
\* longest timestamp sequence of one view
MaxLen == 2
\* largest timestamp value (timestamps are 0..MaxT)
MaxT == 1
\* number of declared view ids in the configuration
NumViews == 2
\* number of distinct prefixes that may occur in the raw directory
MaxRawPrefixes == 2
\* number of distinct prefixes that may occur in the processed directory
MaxProcPrefixes == 2

\* most calls of config() / prepare() / make() on one manager object
MaxCalls == 3

\* ------------------------------------------------------- string primitives
ID == <<"I", "D">>
DOT == <<".">>
DigitChars == <<"0", "1", "2", "3", "4", "5", "6", "7", "8", "9">>
Digit(i) == DigitChars[i + 1]

\* s[i..] starts with pat
MatchesAt(s, pat, i) ==
    /\ i >= 1
    /\ i + Len(pat) - 1 <= Len(s)
    /\ SubSeq(s, i, i + Len(pat) - 1) = pat

Occurrences(s, pat) == {i \in 1..Len(s) : MatchesAt(s, pat, i)}

Contains(s, pat) == Occurrences(s, pat) # {}

MinOf(S) == CHOOSE x \in S : \A y \in S : x <= y
MaxOf(S) == CHOOSE x \in S : \A y \in S : y <= x

\* str.split(pat)[0]
SplitFirst(s, pat) ==
    IF Contains(s, pat) THEN SubSeq(s, 1, MinOf(Occurrences(s, pat)) - 1) ELSE s

\* str.split(pat)[-1]
SplitLast(s, pat) ==
    IF Contains(s, pat)
    THEN SubSeq(s, MaxOf(Occurrences(s, pat)) + Len(pat), Len(s))
    ELSE s

\* the file name matches the glob pattern "*" + suffix
EndsWith(s, suffix) == MatchesAt(s, suffix, Len(s) - Len(suffix) + 1)

\* remove_extension(filepath): filepath.split(".")[0]
remove_extension(fn) == SplitFirst(fn, DOT)

\* os.path.basename of a path <<dir, name>>
basename(fp) == fp[2]

\* _TPA_get_file_prefix(filepath)
TPA_get_file_prefix(fp) == SplitFirst(remove_extension(basename(fp)), ID)

\* TPA_Sample_from_filepaths._read_ID(filepath)
read_ID(fp) == SplitLast(remove_extension(basename(fp)), ID)

\* prefix + "ID" + view_id + "." + extension, the name built at lines 678,
\* 805-806 and 925-926
ViewFileName(prefix, view_id, extension) == prefix \o ID \o view_id \o DOT \o extension

\* ---------------------------------------------------------- JSON values
\* a JSON scalar, with its Python type after json.load
JInt(n) == [type |-> "int", int |-> n, str |-> ""]
JStr(s) == [type |-> "str", int |-> 0, str |-> s]
\* Python truthiness of a loaded JSON scalar
Truthy(v) == IF v.type = "int" THEN v.int # 0 ELSE v.str # ""

\* a file that may be absent: <<>> or <<content>>
NoFile == <<>>
File(c) == <<c>>
Exists(f) == Len(f) > 0
Content(f) == f[1]

Restrict(f, S) == [x \in S |-> f[x]]
Range(s) == {s[i] : i \in DOMAIN s}

RECURSIVE SeqOfSet(_)
\* the elements of a set as a sequence, in one fixed order
SeqOfSet(S) ==
    IF S = {} THEN <<>>
    ELSE LET x == CHOOSE y \in S : TRUE IN <<x>> \o SeqOfSet(S \ {x})

\* every ordering of the elements of a set: list(set(...)) has no fixed order
Orderings(S) ==
    {s \in [1..Cardinality(S) -> S] : \A i, j \in 1..Cardinality(S) : i # j => s[i] # s[j]}

\* list.remove(x): drop the first occurrence
RemoveFirst(s, x) ==
    LET i == MinOf({k \in 1..Len(s) : s[k] = x})
    IN  SubSeq(s, 1, i - 1) \o SubSeq(s, i + 1, Len(s))

\* collections.Counter(list)[x]
Count(s, x) == Cardinality({k \in 1..Len(s) : s[k] = x})

\* ------------------------------------------------------------------ state
VARIABLES
    VERBOSE,          \* the module-level flag VERBOSE
    calls,            \* number of manager methods called so far
    config_ok,        \* history: a config() call on the manager has returned normally
    fs,               \* the directories: fs[d] = [exists, views, nfo, labels, make_config]
    make_log,         \* the file "make.log": NoFile or File(sequence of lines)
    sample,           \* the Sample object in use (kind, filepaths, ids, arrays, timestamps)
    sample_pc,        \* "idle", or "writing" inside TPA_Sample_from_data.write()
    w_idx,            \* inside write(): position of the next file to write
    sample_err,       \* outcome of the last Sample operation: "none" or the exception raised
    last_align,       \* the last align_timesteps that ran: its input timestamps, the
                      \* indices match_timesteps returned, and its reset_T0
    prep,             \* the TPA_Preparer object
    prep_pc,          \* position of prepare()
    prep_err,         \* exception raised by the last Preparer call, or "none"
    prefixes2process, \* prepare(): the working list of prefixes
    p_idx,            \* prepare(): position in prefixes2process
    maker,            \* the TPA_Dataset_Maker object
    make_pc,          \* position of make()
    make_err,         \* exception raised by the last Dataset Maker call, or "none"
    make_ret,         \* value returned by make(): "none", "True", "False"
    prefixes2make,    \* make(): the working list of prefixes
    fps2copy,         \* make(): the <<src, dst>> pairs still to copy
    fn_in,            \* arguments of a function called on its own, or <<>>
    fn_out            \* what that call returned, or <<>> before the call

vars == <<VERBOSE, calls, config_ok, fs, make_log, sample, sample_pc, w_idx, sample_err, last_align,
          prep, prep_pc, prep_err, prefixes2process, p_idx,
          maker, make_pc, make_err, make_ret, prefixes2make, fps2copy, fn_in, fn_out>>

sampleVars == <<sample, sample_pc, w_idx, sample_err, last_align>>
prepVars == <<prep, prep_pc, prep_err, prefixes2process, p_idx>>
makerVars == <<maker, make_pc, make_err, make_ret, prefixes2make, fps2copy>>
fnVars == <<fn_in, fn_out>>

\* --------------------------------------------------------------- file system
Dirs == {"raw", "processed", "dataset"}
EmptyFn == [x \in {} |-> 0]
AbsentDir == [exists |-> FALSE, views |-> EmptyFn, nfo |-> NoFile,
              labels |-> NoFile, make_config |-> NoFile]
EmptyDir == [AbsentDir EXCEPT !.exists = TRUE]

\* TPA_NFO_FN, PROCESSED_OK_KEY, MADE_OK_KEY
TPA_NFO_FN == <<"t", "p", "a", ".", "n", "f", "o">>
PROCESSED_OK_KEY == "ALIGNED"
MADE_OK_KEY == "DATASET_PREPARED"
LabelsName == <<"l", "a", "b", "e", "l", "s", ".", "j", "s", "o", "n">>
Ext == <<"t", "x", "t">>

\* the names used in the directories of the model
PrefixName(i) == <<"s", Digit(i)>>
ViewName(j) == <<Digit(j)>>
ViewIDs == [j \in 1..NumViews |-> ViewName(j)]

\* os.path.exists(path) for a view file
ViewExists(f, fp) == f[fp[1]].exists /\ fp[2] \in DOMAIN f[fp[1]].views

\* write_np2txt / write_np2csv / write_np2pickle: ensure_parent_exists, then
\* the file holds (array, timestamps)
write_tpa_file(f, fp, array, ts) ==
    LET d == fp[1]
        old == f[d].views
        new == [n \in (DOMAIN old) \cup {fp[2]} |->
                  IF n = fp[2] THEN [arr |-> array, ts |-> ts] ELSE old[n]]
    IN  [f EXCEPT ![d].exists = TRUE, ![d].views = new]

\* shutil.copy2(src, dst) of a view file
copy2(f, src, dst) ==
    LET old == f[dst[1]].views
        new == [n \in (DOMAIN old) \cup {dst[2]} |->
                  IF n = dst[2] THEN f[src[1]].views[src[2]] ELSE old[n]]
    IN  [f EXCEPT ![dst[1]].views = new]

\* ensure_path_exists(path)
ensure_path_exists(f, d) == [f EXCEPT ![d].exists = TRUE]

\* glob.glob(os.path.join(dir, "*ID" + id + "." + extension))
\* (the matches in one fixed order; the callers only count them and take the set)
Glob(f, d, id, extension) ==
    IF f[d].exists
    THEN SeqOfSet({<<d, n>> : n \in {m \in DOMAIN f[d].views :
                                        EndsWith(m, ID \o id \o DOT \o extension)}})
    ELSE <<>>

\* ------------------------------------------------------------------ logging
Msg(text, prefix, n) == [text |-> text, prefix |-> prefix, n |-> n]

\* _TPA_File_Manager._log
Log(log, verbose, m) ==
    IF verbose
    THEN (IF Exists(log) THEN File(Append(Content(log), m)) ELSE File(<<m>>))
    ELSE log

RECURSIVE LogAll(_, _, _)
LogAll(log, verbose, ms) ==
    IF ms = <<>> THEN log ELSE LogAll(Log(log, verbose, Head(ms)), verbose, Tail(ms))

\* _TPA_File_Manager.__init__: with VERBOSE, an existing make.log is removed
ManagerInitLog(log, verbose) == IF verbose THEN NoFile ELSE log

\* --------------------------------------------------------- timestamp matcher
Abs(x) == IF x < 0 THEN -x ELSE x

\* np.array([len(ts) ...]).argmin(): the first position of minimal length
\* variants of the reference choice: the longest input, the last shortest input
ArgMaxLen(tss) ==
    MinOf({i \in 1..Len(tss) : \A j \in 1..Len(tss) : Len(tss[i]) >= Len(tss[j])})

ArgMinLenLast(tss) ==
    MaxOf({i \in 1..Len(tss) : \A j \in 1..Len(tss) : Len(tss[i]) <= Len(tss[j])})

ArgMinLen(tss) ==
    MinOf({i \in 1..Len(tss) : \A j \in 1..Len(tss) : Len(tss[i]) <= Len(tss[j])})

\* variant of the nearest-neighbour choice: the last position at minimal distance
NearestLast(t, ts) ==
    MaxOf({j \in 1..Len(ts) : \A k \in 1..Len(ts) : Abs(t - ts[j]) <= Abs(t - ts[k])}) - 1

\* cdist(min_len_ts, ts).argmin(axis=-1) for one reference timestamp t:
\* the first 0-based position of ts at minimal |t - ts[j]|
Nearest(t, ts) ==
    MinOf({j \in 1..Len(ts) : \A k \in 1..Len(ts) : Abs(t - ts[j]) <= Abs(t - ts[k])}) - 1

\* list(range(len(min_len_ts)))
IdentityIndices(n) == [k \in 1..n |-> k - 1]

\* match_timesteps(*timestamps_lists): one list of 0-based indices per input
match_timesteps(tss) ==
    LET m == ArgMinLen(tss)
        ref == tss[m]
    IN  [i \in 1..Len(tss) |->
           IF i = m
           THEN IdentityIndices(Len(ref))
           ELSE [k \in 1..Len(ref) |-> Nearest(ref[k], tss[i])]]

\* ------------------------------------------------------------------- Sample
\* array[ids] / np.array(ts)[ids] with a list of 0-based indices
TakeIndices(seq, idxs) == [k \in 1..Len(idxs) |-> seq[idxs[k] + 1]]

NoSample == [kind |-> "none", has_fp |-> FALSE, filepaths |-> <<>>, ids |-> <<>>,
             arrays |-> <<>>, timestamps |-> <<>>]

\* read_tpa_file(fp): (array, timestamps) of an existing file
read_tpa_file(f, fp) == f[fp[1]].views[fp[2]]

\* TPA_Sample_from_filepaths.__init__
TPA_Sample_from_filepaths(f, fps) ==
    [kind |-> "filepaths", has_fp |-> TRUE, filepaths |-> fps,
     ids |-> [i \in 1..Len(fps) |-> read_ID(fps[i])],
     arrays |-> [i \in 1..Len(fps) |-> read_tpa_file(f, fps[i]).arr],
     timestamps |-> [i \in 1..Len(fps) |-> read_tpa_file(f, fps[i]).ts]]

\* TPA_Sample_from_data.__init__: output_filepaths is None (<<>>) or a list
TPA_Sample_from_data(arrays, timestamps, ids, output_filepaths) ==
    [kind |-> "data", has_fp |-> output_filepaths # <<>>, filepaths |-> output_filepaths,
     ids |-> ids, arrays |-> arrays, timestamps |-> timestamps]

\* TPA_Sample_from_data.make_filepaths
make_filepaths(s, parent_dir, prefix, extension) ==
    [s EXCEPT !.has_fp = TRUE,
              !.filepaths = [i \in 1..Len(s.ids) |->
                               <<parent_dir, ViewFileName(prefix, s.ids[i], extension)>>]]

\* variant of the T0 computation: the first view's first timestamp
FirstViewT0(tss) == tss[1][1]

\* np.min([ts[0] for ts in self.timestamps])
SampleT0Min(tss) == MinOf({tss[i][1] : i \in 1..Len(tss)})

\* TPA_Sample_from_data.align_timesteps(reset_T0)
align_timesteps(s, reset_T0) ==
    LET indexes == match_timesteps(s.timestamps)
        n == Len(s.ids)
        arrays1 == [i \in 1..Len(s.arrays) |->
                      IF i <= n THEN TakeIndices(s.arrays[i], indexes[i]) ELSE s.arrays[i]]
        ts1 == [i \in 1..Len(s.timestamps) |->
                  IF i <= n THEN TakeIndices(s.timestamps[i], indexes[i])
                  ELSE s.timestamps[i]]
        T0 == SampleT0Min(ts1)
        ts2 == [i \in 1..Len(ts1) |-> [k \in 1..Len(ts1[i]) |-> ts1[i][k] - T0]]
    IN  [s EXCEPT !.arrays = arrays1,
                  !.timestamps = IF reset_T0 THEN ts2 ELSE ts1]

NoAlign == [in |-> <<>>, out |-> <<>>, reset_T0 |-> FALSE]
AlignRecord(s, reset_T0) ==
    [in |-> s.timestamps, out |-> match_timesteps(s.timestamps), reset_T0 |-> reset_T0]

\* _TPA_Sample.test_alignment
test_alignment(s) ==
    \A i \in 1..Len(s.timestamps) : Len(s.timestamps[i]) = Len(s.timestamps[1])

\* ------------------------------------------------ the objects before config()
\* _TPA_File_Manager.__init__ / TPA_Preparer.__init__: no field is set yet
NewPreparer == [configured |-> FALSE, json |-> EmptyFn, raw_input_dir |-> "",
                processed_destination_dir |-> "", view_IDs |-> <<>>, tpas_extension |-> <<>>]

\* TPA_Dataset_Maker.__init__
NewMaker == [configured |-> FALSE, json |-> EmptyFn, dataset_destination_dir |-> "",
             view_IDs |-> <<>>,
             processed_input_dir |-> "", labels_filepath |-> <<"", <<>>>>,
             tpas_extension |-> <<>>]

\* no TPA_Preparer has been constructed (prep_pc = "absent"), or one has
NoPreparer ==
    /\ prep = NewPreparer /\ prep_pc = "absent" /\ prep_err = "none"
    /\ prefixes2process = <<>> /\ p_idx = 0

PreparerConstructed ==
    /\ prep = NewPreparer /\ prep_pc = "idle" /\ prep_err = "none"
    /\ prefixes2process = <<>> /\ p_idx = 0

\* no TPA_Dataset_Maker has been constructed (make_pc = "absent"), or one has
NoMaker ==
    /\ maker = NewMaker /\ make_pc = "absent" /\ make_err = "none" /\ make_ret = "none"
    /\ prefixes2make = <<>> /\ fps2copy = <<>>

MakerConstructed ==
    /\ maker = NewMaker /\ make_pc = "idle" /\ make_err = "none" /\ make_ret = "none"
    /\ prefixes2make = <<>> /\ fps2copy = <<>>

\* ------------------------------------------------------- Sample operations
\* the frames of a recording of n time steps, each tagged by its position
Frames(n) == [k \in 1..n |-> k]

\* nonempty ascending timestamp sequences within the bounds
TimestampSeqs ==
    {ts \in UNION {[1..n -> 0..MaxT] : n \in 1..MaxLen} :
        \A k \in 1..(Len(ts) - 1) : ts[k] <= ts[k + 1]}

\* the files of one recording session with the given timestamps per view
SessionFiles(prefix, tss) ==
    [n \in {ViewFileName(prefix, ViewName(i), Ext) : i \in 1..Len(tss)} |->
        LET i == CHOOSE j \in 1..Len(tss) : ViewFileName(prefix, ViewName(j), Ext) = n
        IN  [arr |-> Frames(Len(tss[i])), ts |-> tss[i]]]

SessionPaths(d, prefix, n) == [i \in 1..n |-> <<d, ViewFileName(prefix, ViewName(i), Ext)>>]

\* TPA_Sample_from_filepaths.align_timesteps(self) takes no argument and raises;
\* TPA_Sample_from_data.align_timesteps(self, reset_T0=False)
SampleAlign(call) ==
    /\ sample_pc = "idle"
    /\ sample.kind \in {"filepaths", "data"}
    /\ IF sample.kind = "filepaths"
       THEN /\ sample_err' = IF call = "noarg" THEN "Exception" ELSE "TypeError"
            /\ UNCHANGED <<sample, last_align>>
       ELSE /\ sample' = align_timesteps(sample, call = "reset_T0=True")
            /\ last_align' = AlignRecord(sample, call = "reset_T0=True")
            /\ sample_err' = "none"
    /\ UNCHANGED <<VERBOSE, fnVars, calls, config_ok, fs, make_log, sample_pc, w_idx, prepVars, makerVars>>

\* TPA_Sample_from_data.make_filepaths (TPA_Sample_from_filepaths has no such method)
SampleMakeFilepaths(prefix) ==
    /\ sample_pc = "idle"
    /\ sample.kind \in {"filepaths", "data"}
    /\ IF sample.kind = "filepaths"
       THEN sample_err' = "AttributeError" /\ UNCHANGED sample
       ELSE /\ sample' = make_filepaths(sample, "processed", prefix, Ext)
            /\ sample_err' = "none"
    /\ UNCHANGED <<VERBOSE, fnVars, calls, config_ok, fs, make_log, sample_pc, w_idx, last_align, prepVars, makerVars>>

\* number of iterations of zip(self.filepaths, self.arrays, self.timestamps)
WriteCount(s) == MinOf({Len(s.filepaths), Len(s.arrays), Len(s.timestamps)})

\* variant of write(): no read-only check
SampleWriteCallUnguarded(s) ==
    IF ~s.has_fp \/ s.filepaths = <<>> THEN [err |-> "AssertionError", pc |-> "idle"]
    ELSE [err |-> "none", pc |-> IF WriteCount(s) = 0 THEN "idle" ELSE "writing"]

\* write() of either variant, up to its first file write
SampleWriteCall(s) ==
    IF s.kind = "filepaths" THEN [err |-> "Exception", pc |-> "idle"]
    ELSE IF ~s.has_fp \/ s.filepaths = <<>> THEN [err |-> "AssertionError", pc |-> "idle"]
    ELSE [err |-> "none", pc |-> IF WriteCount(s) = 0 THEN "idle" ELSE "writing"]

SampleWrite ==
    /\ sample_pc = "idle"
    /\ sample.kind \in {"filepaths", "data"}
    /\ prep_pc = "absent"
    /\ sample_err' = SampleWriteCall(sample).err
    /\ sample_pc' = SampleWriteCall(sample).pc
    /\ w_idx' = 1
    /\ UNCHANGED <<VERBOSE, fnVars, calls, config_ok, fs, make_log, sample, last_align, prepVars, makerVars>>

\* one iteration of the loop of TPA_Sample_from_data.write()
SampleWriteStep ==
    /\ sample_pc = "writing"
    /\ fs' = write_tpa_file(fs, sample.filepaths[w_idx], sample.arrays[w_idx],
                            sample.timestamps[w_idx])
    /\ w_idx' = w_idx + 1
    /\ sample_pc' = IF w_idx = WriteCount(sample) THEN "idle" ELSE "writing"
    /\ UNCHANGED <<VERBOSE, fnVars, calls, config_ok, make_log, sample, sample_err, last_align, prepVars, makerVars>>

\* a Sample right after construction: filepath-backed over the files of one
\* session, or data-backed over in-memory recordings without output paths
SampleInit ==
    /\ VERBOSE = FALSE
    /\ calls = 0
    /\ config_ok = FALSE
    /\ fn_in = <<>> /\ fn_out = <<>>
    /\ make_log = NoFile
    /\ \E n \in 1..MaxSeqs : \E tss \in [1..n -> TimestampSeqs] :
         \/ /\ fs = [d \in Dirs |->
                       IF d = "raw"
                       THEN [EmptyDir EXCEPT !.views = SessionFiles(PrefixName(1), tss)]
                       ELSE AbsentDir]
            /\ sample = TPA_Sample_from_filepaths(fs, SessionPaths("raw", PrefixName(1), n))
         \/ /\ fs = [d \in Dirs |-> AbsentDir]
            /\ sample = TPA_Sample_from_data([i \in 1..n |-> Frames(Len(tss[i]))], tss,
                                             [i \in 1..n |-> ViewName(i)], <<>>)
    /\ sample_pc = "idle" /\ w_idx = 1 /\ sample_err = "none" /\ last_align = NoAlign
    /\ NoPreparer
    /\ NoMaker

SampleNext ==
    \/ \E call \in {"noarg", "reset_T0=True", "reset_T0=False"} : SampleAlign(call)
    \/ SampleMakeFilepaths(PrefixName(1))
    \/ SampleWrite
    \/ SampleWriteStep

SpecSample == SampleInit /\ [][SampleNext]_vars

\* ------------------------------------------------------ File Manager (base)
PreparerRequiredKeys ==
    <<"raw_input_dir", "processed_destination_dir", "view_IDs", "tpas_extension",
      "MAKE", "PREPARE">>

MakerRequiredKeys ==
    <<"dataset_destination_dir", "view_IDs", "processed_input_dir", "labels_filepath",
      "tpas_extension", "MAKE", "PREPARE">>

PlainMsg(text) == Msg(text, <<>>, 0)

\* _TPA_File_Manager._validate_config: [ok, err, msgs]
validate_config(json, required) ==
    LET keys_missing == SelectSeq(required, LAMBDA k : k \notin DOMAIN json)
    IN  IF Len(keys_missing) > 0
        THEN [ok |-> FALSE, err |-> "none",
              msgs |-> <<PlainMsg("Keys required"), PlainMsg("Keys missing")>>]
        ELSE IF json["PREPARE"] # 0 /\ json["MAKE"] # 0
        THEN [ok |-> FALSE, err |-> "Exception", msgs |-> <<>>]
        ELSE [ok |-> TRUE, err |-> "none", msgs |-> <<>>]

\* _TPA_File_Manager._generate_config_template: the JSON object written
generate_config_template(required, fill_dict) ==
    [k \in Range(required) \cup DOMAIN fill_dict |->
        IF k \in DOMAIN fill_dict THEN fill_dict[k] ELSE ""]

RECURSIVE CounterKeys(_)
\* collections.Counter(prefixes).keys(): the distinct elements, by first occurrence
CounterKeys(s) ==
    IF s = <<>> THEN <<>>
    ELSE LET rest == CounterKeys(SubSeq(s, 1, Len(s) - 1))
         IN  IF s[Len(s)] \in Range(rest) THEN rest ELSE Append(rest, s[Len(s)])

\* variant of the completeness test: a prefix with at least one file is kept
HasAnyView(prefix_view_number, view_number) == prefix_view_number < 1

\* line 756: the prefix misses views
MissesViews(prefix_view_number, view_number) == prefix_view_number < view_number

RECURSIVE RemoveMissingLoop(_, _, _, _)
\* the loop of _remove_missing_views over counter.keys(): [list, msgs, err]
RemoveMissingLoop(keys, prefixes, acc, view_number) ==
    IF keys = <<>> \/ acc.err # "none" THEN acc
    ELSE LET prefix == Head(keys)
             prefix_view_number == Count(prefixes, prefix)
         IN  IF MissesViews(prefix_view_number, view_number)
             THEN IF prefix \in Range(acc.list)
                  THEN RemoveMissingLoop(Tail(keys), prefixes,
                         [acc EXCEPT
                            !.list = RemoveFirst(acc.list, prefix),
                            !.msgs = Append(acc.msgs,
                                       Msg("[WARNING] Ignoring prefix because it misses views",
                                           prefix, view_number - prefix_view_number))],
                         view_number)
                  ELSE [acc EXCEPT !.err = "ValueError"]
             ELSE RemoveMissingLoop(Tail(keys), prefixes, acc, view_number)

\* _TPA_File_Manager._remove_missing_views(prefixes, prefixes2filter)
remove_missing_views(view_IDs, prefixes, prefixes2filter) ==
    RemoveMissingLoop(CounterKeys(prefixes), prefixes,
                      [list |-> prefixes2filter, msgs |-> <<>>, err |-> "none"],
                      Len(view_IDs))

RECURSIVE GlobViews(_, _, _, _)
\* files = []; for pattern in glob_patterns: files.extend(glob.glob(pattern))
GlobViews(f, d, view_IDs, extension) ==
    IF view_IDs = <<>> THEN <<>>
    ELSE Glob(f, d, Head(view_IDs), extension) \o GlobViews(f, d, Tail(view_IDs), extension)

\* prefixes = [_TPA_get_file_prefix(f) for f in files]
FilePrefixes(files) == [i \in 1..Len(files) |-> TPA_get_file_prefix(files[i])]

\* [prefix_path + "ID" + view_id + "." + extension for view_id in self.view_IDs]
ViewPaths(d, prefix, view_IDs, extension) ==
    [i \in 1..Len(view_IDs) |-> <<d, ViewFileName(prefix, view_IDs[i], extension)>>]

\* ----------------------------------------------------------------- Preparer
\* TPA_Preparer.config(json_filepath) on the loaded JSON object: [obj, err, msgs]
PreparerConfigResult(p, json) ==
    LET v == validate_config(json, PreparerRequiredKeys)
        p1 == [p EXCEPT !.json = json]
    IN  IF v.err # "none" THEN [obj |-> p1, err |-> v.err, msgs |-> v.msgs]
        ELSE IF ~v.ok THEN [obj |-> p1, err |-> "AssertionError", msgs |-> v.msgs]
        ELSE IF json["PREPARE"] = 0
        THEN [obj |-> p1, err |-> "AssertionError", msgs |-> v.msgs]
        ELSE [obj |-> [p1 EXCEPT !.raw_input_dir = json["raw_input_dir"],
                                 !.processed_destination_dir =
                                     json["processed_destination_dir"],
                                 !.view_IDs = json["view_IDs"],
                                 !.tpas_extension = json["tpas_extension"],
                                 !.configured = TRUE],
              err |-> "none", msgs |-> v.msgs]

NotConfiguredMsg == "Configure with config() first"

\* TPA_Preparer._write_nfo: the JSON object written to tpa.nfo
PreparerNfo == [ALIGNED |-> 1]

\* TPA_Preparer._write_labels_file: {prefix: "" for prefix in prefixes2label}
LabelsTemplate(prefixes2label) == [q \in Range(prefixes2label) |-> JStr("")]

\* TPA_Preparer._write_make_file: the content of make_config.json
MakeConfigTemplate(p) ==
    generate_config_template(MakerRequiredKeys,
        [MAKE |-> 1, PREPARE |-> 0, view_IDs |-> p.view_IDs,
         tpas_extension |-> p.tpas_extension,
         processed_input_dir |-> p.processed_destination_dir,
         labels_filepath |-> <<p.processed_destination_dir, LabelsName>>])

PreparerConfig(json) ==
    /\ prep_pc = "idle"
    /\ calls < MaxCalls
    /\ calls' = calls + 1
    /\ LET r == PreparerConfigResult(prep, json)
       IN  /\ prep' = r.obj
           /\ prep_err' = r.err
           /\ config_ok' = (config_ok \/ r.err = "none")
           /\ make_log' = LogAll(make_log, VERBOSE, r.msgs)
    /\ UNCHANGED <<VERBOSE, fnVars, fs, sampleVars, prep_pc, prefixes2process, p_idx, makerVars>>

\* prepare() up to its loop over the prefixes (lines 786-801)
PrepareCall ==
    /\ prep_pc = "idle"
    /\ calls < MaxCalls
    /\ calls' = calls + 1
    /\ IF ~prep.configured
       THEN /\ make_log' = Log(make_log, VERBOSE, PlainMsg(NotConfiguredMsg))
            /\ prep_err' = NotConfiguredMsg
            /\ UNCHANGED <<fs, prep_pc, prefixes2process, p_idx>>
       ELSE \E prefixes \in {FilePrefixes(GlobViews(fs, prep.raw_input_dir, prep.view_IDs,
                                                       prep.tpas_extension))} :
            \E order \in Orderings(Range(prefixes)) :
            \E r \in {remove_missing_views(prep.view_IDs, prefixes, order)} :
                      /\ fs' = ensure_path_exists(fs, prep.raw_input_dir)
                      /\ make_log' = LogAll(make_log, VERBOSE,
                             r.msgs \o <<PlainMsg("Reading, aligning and removing T0 from samples...")>>)
                      /\ prefixes2process' = r.list
                      /\ p_idx' = 1
                      /\ prep_pc' = "loop"
                      /\ prep_err' = "none"
    /\ UNCHANGED <<VERBOSE, fnVars, config_ok, sampleVars, prep, makerVars>>

\* one iteration of the loop of prepare(), up to the first file write of
\* processed_sample.write() (lines 802-810)
PrepareSample ==
    /\ prep_pc = "loop" /\ sample_pc = "idle"
    /\ p_idx <= Len(prefixes2process)
    /\ LET prefix == prefixes2process[p_idx]
           raw_fps == ViewPaths(prep.raw_input_dir, prefix, prep.view_IDs,
                                prep.tpas_extension)
           processed_fps == ViewPaths(prep.processed_destination_dir, prefix,
                                      prep.view_IDs, prep.tpas_extension)
       IN  IF \E i \in 1..Len(raw_fps) : ~ViewExists(fs, raw_fps[i])
           THEN /\ prep_err' = "FileNotFoundError"
                /\ prep_pc' = "raised"
                /\ UNCHANGED <<sampleVars, p_idx>>
           ELSE LET raw_sample == TPA_Sample_from_filepaths(fs, raw_fps)
                    processed_sample ==
                        TPA_Sample_from_data(raw_sample.arrays, raw_sample.timestamps,
                                             raw_sample.ids, processed_fps)
                    aligned == align_timesteps(processed_sample, TRUE)
                IN  /\ sample' = aligned
                    /\ last_align' = AlignRecord(processed_sample, TRUE)
                    /\ sample_err' = SampleWriteCall(aligned).err
                    /\ sample_pc' = SampleWriteCall(aligned).pc
                    /\ w_idx' = 1
                    /\ p_idx' = p_idx + 1
                    /\ UNCHANGED <<prep_pc, prep_err>>
    /\ UNCHANGED <<VERBOSE, fnVars, calls, config_ok, fs, make_log, prep, prefixes2process, makerVars>>

\* self._write_nfo() of prepare(): open(..., 'w') needs the directory
PrepareWriteNfo ==
    /\ prep_pc = "loop" /\ sample_pc = "idle"
    /\ p_idx > Len(prefixes2process)
    /\ IF fs[prep.processed_destination_dir].exists
       THEN /\ fs' = [fs EXCEPT ![prep.processed_destination_dir].nfo = File(PreparerNfo)]
            /\ prep_pc' = "labels"
            /\ UNCHANGED prep_err
       ELSE /\ prep_err' = "FileNotFoundError"
            /\ prep_pc' = "raised"
            /\ UNCHANGED fs
    /\ UNCHANGED <<VERBOSE, fnVars, calls, config_ok, make_log, sampleVars, prep, prefixes2process, p_idx, makerVars>>

\* self._write_labels_file(prefixes2process)
PrepareWriteLabels ==
    /\ prep_pc = "labels"
    /\ fs' = [fs EXCEPT ![prep.processed_destination_dir].labels =
                            File(LabelsTemplate(prefixes2process))]
    /\ prep_pc' = "make_file"
    /\ UNCHANGED <<VERBOSE, fnVars, calls, config_ok, make_log, sampleVars, prep, prep_err, prefixes2process, p_idx,
                   makerVars>>

\* self._write_make_file() and the two closing log lines; _write_make_file
\* constructs a TPA_Dataset_Maker, whose __init__ removes make.log when VERBOSE
PrepareWriteMakeFile ==
    /\ prep_pc = "make_file"
    /\ fs' = [fs EXCEPT ![prep.processed_destination_dir].make_config =
                            File(MakeConfigTemplate(prep))]
    /\ make_log' = LogAll(ManagerInitLog(make_log, VERBOSE), VERBOSE,
                          <<PlainMsg("Writing nfo, labels and json files..."),
                            PlainMsg("OK")>>)
    /\ prep_pc' = "done"
    /\ UNCHANGED <<VERBOSE, fnVars, calls, config_ok, sampleVars, prep, prep_err, prefixes2process, p_idx, makerVars>>

\* the process dies inside prepare()
PrepareCrash ==
    /\ prep_pc \in {"loop", "labels", "make_file"}
    /\ prep_pc' = "crashed"
    /\ sample_pc' = "idle"
    /\ UNCHANGED <<VERBOSE, fnVars, calls, config_ok, fs, make_log, sample, w_idx, sample_err, last_align, prep,
                   prep_err, prefixes2process, p_idx, makerVars>>

\* the configuration files handed to TPA_Preparer.config
GoodPreparerConfig ==
    [raw_input_dir |-> "raw", processed_destination_dir |-> "processed",
     view_IDs |-> ViewIDs, tpas_extension |-> Ext, MAKE |-> 0, PREPARE |-> 1]

PreparerConfigFiles ==
    { GoodPreparerConfig,
      Restrict(GoodPreparerConfig, DOMAIN GoodPreparerConfig \ {"tpas_extension"}),
      [GoodPreparerConfig EXCEPT !["PREPARE"] = 0],
      [GoodPreparerConfig EXCEPT !["MAKE"] = 1] }

\* the recording of view v of session p in the raw directory
RawRecording(p, v) ==
    LET n == 1 + ((p + v) % 2)
    IN  [arr |-> Frames(n), ts |-> [k \in 1..n |-> p + v + k]]

\* the views of one prefix that have a file in the raw directory: none, all,
\* all but the first, or all but the last
RawChoices == {"none", "all", "first_missing", "last_missing"}

RawViews(choice) ==
    IF choice = "none" THEN {}
    ELSE IF choice = "all" THEN 1..NumViews
    ELSE IF choice = "first_missing" THEN 2..NumViews
    ELSE 1..(NumViews - 1)

RawDir(rc) ==
    LET pvs == {pv \in (DOMAIN rc) \X (1..NumViews) : pv[2] \in RawViews(rc[pv[1]])}
    IN  [n \in {ViewFileName(PrefixName(pv[1]), ViewName(pv[2]), Ext) : pv \in pvs} |->
           LET pv == CHOOSE qv \in pvs :
                        ViewFileName(PrefixName(qv[1]), ViewName(qv[2]), Ext) = n
           IN  RawRecording(pv[1], pv[2])]

\* a TPA_Preparer right after construction, over any raw directory
PrepareInit ==
    /\ VERBOSE \in BOOLEAN
    /\ calls = 0
    /\ config_ok = FALSE
    /\ fn_in = <<>> /\ fn_out = <<>>
    /\ make_log = NoFile
    /\ \E rc \in [1..MaxRawPrefixes -> RawChoices] : \E pex \in BOOLEAN :
         fs = [d \in Dirs |->
                 IF d = "raw"
                 THEN [EmptyDir EXCEPT !.views = RawDir(rc)]
                 ELSE IF d = "processed" /\ pex THEN EmptyDir
                 ELSE AbsentDir]
    /\ sample = NoSample /\ sample_pc = "idle" /\ w_idx = 1 /\ sample_err = "none"
    /\ last_align = NoAlign
    /\ PreparerConstructed
    /\ NoMaker

PrepareNext ==
    \/ \E json \in PreparerConfigFiles : PreparerConfig(json)
    \/ PrepareCall
    \/ PrepareSample
    \/ SampleWriteStep
    \/ PrepareWriteNfo
    \/ PrepareWriteLabels
    \/ PrepareWriteMakeFile
    \/ PrepareCrash

SpecPrepare == PrepareInit /\ [][PrepareNext]_vars

\* ------------------------------------------------------------ Dataset Maker
\* os.path.exists(os.path.join(dir, TPA_NFO_FN))
NfoExists(f, d) == f[d].exists /\ Exists(f[d].nfo)

\* os.path.exists(labels_filepath)
LabelsExist(f, fp) == f[fp[1]].exists /\ fp[2] = LabelsName /\ Exists(f[fp[1]].labels)

\* variant of config(): the stage marker and its ALIGNED flag are not checked
MakerConfigUnchecked(m, f, json) ==
    LET v == validate_config(json, MakerRequiredKeys)
        m1 == [m EXCEPT !.json = json]
        m3 == [m1 EXCEPT !.dataset_destination_dir = json["dataset_destination_dir"],
                         !.view_IDs = json["view_IDs"],
                         !.processed_input_dir = json["processed_input_dir"],
                         !.labels_filepath = json["labels_filepath"],
                         !.tpas_extension = json["tpas_extension"],
                         !.configured = TRUE]
    IN  IF v.err # "none" THEN [obj |-> m1, err |-> v.err, msgs |-> v.msgs]
        ELSE IF ~v.ok THEN [obj |-> m1, err |-> "AssertionError", msgs |-> v.msgs]
        ELSE IF json["MAKE"] = 0 THEN [obj |-> m1, err |-> "AssertionError", msgs |-> <<>>]
        ELSE [obj |-> m3, err |-> "none", msgs |-> <<>>]

\* variant of config(): the fields and the configured flag are set before the
\* preconditions are checked
MakerConfigEager(m, f, json) ==
    LET v == validate_config(json, MakerRequiredKeys)
        m1 == [m EXCEPT !.json = json]
        m3 == [m1 EXCEPT !.dataset_destination_dir = json["dataset_destination_dir"],
                         !.view_IDs = json["view_IDs"],
                         !.processed_input_dir = json["processed_input_dir"],
                         !.labels_filepath = json["labels_filepath"],
                         !.tpas_extension = json["tpas_extension"],
                         !.configured = TRUE]
        nfo == Content(f[m3.processed_input_dir].nfo)
    IN  IF v.err # "none" THEN [obj |-> m1, err |-> v.err, msgs |-> v.msgs]
        ELSE IF ~v.ok THEN [obj |-> m1, err |-> "AssertionError", msgs |-> v.msgs]
        ELSE IF json["MAKE"] = 0 THEN [obj |-> m1, err |-> "AssertionError", msgs |-> <<>>]
        ELSE IF ~NfoExists(f, m3.processed_input_dir)
        THEN [obj |-> m3, err |-> "Exception", msgs |-> <<>>]
        ELSE IF PROCESSED_OK_KEY \notin DOMAIN nfo
        THEN [obj |-> m3, err |-> "KeyError", msgs |-> <<>>]
        ELSE IF nfo[PROCESSED_OK_KEY] = 0
        THEN [obj |-> m3, err |-> "AssertionError", msgs |-> <<>>]
        ELSE IF ~LabelsExist(f, m3.labels_filepath)
        THEN [obj |-> m3, err |-> "Exception",
              msgs |-> <<PlainMsg("Specified label file doesn't exist")>>]
        ELSE [obj |-> m3, err |-> "none", msgs |-> <<>>]

\* TPA_Dataset_Maker.config(json_filepath) on the loaded JSON object: [obj, err, msgs]
MakerConfigResult(m, f, json) ==
    LET v == validate_config(json, MakerRequiredKeys)
        m1 == [m EXCEPT !.json = json]
        m2 == [m1 EXCEPT !.dataset_destination_dir = json["dataset_destination_dir"],
                         !.view_IDs = json["view_IDs"],
                         !.processed_input_dir = json["processed_input_dir"]]
        m3 == [m2 EXCEPT !.labels_filepath = json["labels_filepath"]]
        nfo == Content(f[m2.processed_input_dir].nfo)
    IN  IF v.err # "none" THEN [obj |-> m1, err |-> v.err, msgs |-> v.msgs]
        ELSE IF ~v.ok THEN [obj |-> m1, err |-> "AssertionError", msgs |-> v.msgs]
        ELSE IF json["MAKE"] = 0 THEN [obj |-> m1, err |-> "AssertionError", msgs |-> <<>>]
        ELSE IF ~NfoExists(f, m2.processed_input_dir)
        THEN [obj |-> m2, err |-> "Exception", msgs |-> <<>>]
        ELSE IF PROCESSED_OK_KEY \notin DOMAIN nfo
        THEN [obj |-> m2, err |-> "KeyError", msgs |-> <<>>]
        ELSE IF nfo[PROCESSED_OK_KEY] = 0
        THEN [obj |-> m2, err |-> "AssertionError", msgs |-> <<>>]
        ELSE IF ~LabelsExist(f, m3.labels_filepath)
        THEN [obj |-> m3, err |-> "Exception",
              msgs |-> <<PlainMsg("Specified label file doesn't exist")>>]
        ELSE [obj |-> [m3 EXCEPT !.tpas_extension = json["tpas_extension"],
                                 !.configured = TRUE],
              err |-> "none", msgs |-> <<>>]

\* the keys of the labels file that _read_labels_file renames: len(key.split("ID")) > 1
LegacyKeys(data) == {k \in DOMAIN data : Contains(k, ID)}

\* a renamed key meets an existing key: the dictionary shrinks while it is iterated
RenameCollides(data) ==
    \/ \E k \in LegacyKeys(data) : SplitFirst(k, ID) \in DOMAIN data
    \/ \E k1, k2 \in LegacyKeys(data) : k1 # k2 /\ SplitFirst(k1, ID) = SplitFirst(k2, ID)

\* the dictionary after every data[new_key] = data.pop(old_key)
NormalizedLabels(data) ==
    LET legacy == LegacyKeys(data)
        plain == (DOMAIN data) \ legacy
    IN  [q \in plain \cup {SplitFirst(k, ID) : k \in legacy} |->
            IF q \in plain THEN data[q]
            ELSE data[CHOOSE k \in legacy : SplitFirst(k, ID) = q]]

\* TPA_Dataset_Maker._read_labels_file: the loop pops and inserts keys of the
\* dictionary it iterates.  Without a legacy key nothing changes.  A rename
\* onto an existing key changes the size and raises RuntimeError in every
\* Python 3; any other rename raises RuntimeError ("keys changed during
\* iteration") from Python 3.8 on and goes through before (keyCheck tells which).
read_labels_file(data, keyCheck) ==
    IF LegacyKeys(data) = {} THEN [data |-> data, err |-> "none"]
    ELSE IF RenameCollides(data) \/ keyCheck THEN [data |-> data, err |-> "RuntimeError"]
    ELSE [data |-> NormalizedLabels(data), err |-> "none"]

\* the test of each of the three label loops of make() (lines 902, 907, 912)
DropsLabel(stage, labels, prefix) ==
    IF stage = 1 THEN prefix \notin DOMAIN labels
    ELSE IF stage = 2 THEN ~Truthy(labels[prefix])
    ELSE labels[prefix].type # "int"

LabelWarning(stage, prefix) ==
    IF stage = 3
    THEN Msg("[WARNING] Ignoring prefix because the label is incorrect (it is not an integer)",
             prefix, 0)
    ELSE Msg("[WARNING] Ignoring prefix because it misses a label", prefix, 0)

RECURSIVE LabelLoop(_, _, _, _)
\* "for prefix in prefixes2make: if ...: prefixes2make.remove(prefix)": the
\* iterator holds a position i in the list that the body shortens, so the
\* element after a removed one is never visited.  acc = [list, msgs, err]
LabelLoop(stage, labels, i, acc) ==
    IF i > Len(acc.list) \/ acc.err # "none" THEN acc
    ELSE LET prefix == acc.list[i]
         IN  IF stage > 1 /\ prefix \notin DOMAIN labels
             THEN [acc EXCEPT !.err = "KeyError"]
             ELSE IF DropsLabel(stage, labels, prefix)
             THEN LabelLoop(stage, labels, i + 1,
                            [acc EXCEPT !.list = RemoveFirst(acc.list, prefix),
                                        !.msgs = Append(acc.msgs, LabelWarning(stage, prefix))])
             ELSE LabelLoop(stage, labels, i + 1, acc)

\* the three loops in sequence
FilterLabels(labels, prefixes2make_in) ==
    LET a0 == [list |-> prefixes2make_in, msgs |-> <<>>, err |-> "none"]
        a1 == LabelLoop(1, labels, 1, a0)
        a2 == LabelLoop(2, labels, 1, a1)
    IN  LabelLoop(3, labels, 1, a2)

RECURSIVE CopyPairs(_, _)
\* zip(fps2copy, fps2output) flattened: the <<src, dst>> pairs in copy order
CopyPairs(m, prefixes) ==
    IF prefixes = <<>> THEN <<>>
    ELSE LET fps == ViewPaths(m.processed_input_dir, Head(prefixes), m.view_IDs,
                              m.tpas_extension)
             fps_o == ViewPaths(m.dataset_destination_dir, Head(prefixes), m.view_IDs,
                                m.tpas_extension)
         IN  [i \in 1..Len(fps) |-> <<fps[i], fps_o[i]>>] \o CopyPairs(m, Tail(prefixes))

\* make() from ensure_path_exists to the decision at line 935, for one order
\* of list(set(prefixes)): [err, ret, list, pairs, msgs]
MakePlan(m, f, order, prefixes, keyCheck) ==
    LET r == remove_missing_views(m.view_IDs, prefixes, order)
        lf == f[m.labels_filepath[1]].labels
        rl == read_labels_file(Content(lf), keyCheck)
        fl == FilterLabels(rl.data, r.list)
        prefixes2make_number0 == Len(order)
        prefixes2make_number == Cardinality(Range(fl.list))
        prefixes_ignored == prefixes2make_number0 - prefixes2make_number
        info == Msg("[INFO] prefixes ignored out of initial", <<>>, prefixes_ignored)
        fail(e, ms) == [err |-> e, ret |-> "none", list |-> <<>>, pairs |-> <<>>, msgs |-> ms]
    IN  IF r.err # "none" THEN fail(r.err, r.msgs)
        ELSE IF ~LabelsExist(f, m.labels_filepath) THEN fail("FileNotFoundError", r.msgs)
        ELSE IF rl.err # "none" THEN fail(rl.err, r.msgs)
        ELSE IF fl.err # "none" THEN fail(fl.err, r.msgs \o fl.msgs)
        ELSE IF prefixes_ignored = prefixes2make_number0
        THEN [err |-> "none", ret |-> "False", list |-> fl.list, pairs |-> <<>>,
              msgs |-> r.msgs \o fl.msgs \o
                       <<info, PlainMsg("[WARNING] All files ignored, dataset is empty."),
                         PlainMsg("FAILED")>>]
        ELSE [err |-> "none", ret |-> "none", list |-> fl.list,
              pairs |-> CopyPairs(m, fl.list),
              msgs |-> r.msgs \o fl.msgs \o
                       <<info, PlainMsg("[INFO] Making dataset..."),
                         PlainMsg("[INFO] Copying files...")>>]

\* TPA_Dataset_Maker._write_nfo: the JSON object written to tpa.nfo
MakerNfo == [DATASET_PREPARED |-> 1]

MakerConfig(json) ==
    /\ make_pc = "idle"
    /\ calls < MaxCalls
    /\ calls' = calls + 1
    /\ LET r == MakerConfigResult(maker, fs, json)
       IN  /\ maker' = r.obj
           /\ make_err' = r.err
           /\ config_ok' = (config_ok \/ r.err = "none")
           /\ make_log' = LogAll(make_log, VERBOSE, r.msgs)
    /\ UNCHANGED <<VERBOSE, fnVars, fs, sampleVars, prepVars, make_pc, make_ret, prefixes2make,
                   fps2copy>>

\* make() up to its first copy (lines 884-940)
MakeCall ==
    /\ make_pc = "idle"
    /\ calls < MaxCalls
    /\ calls' = calls + 1
    /\ IF ~maker.configured
       THEN /\ make_log' = Log(make_log, VERBOSE, PlainMsg(NotConfiguredMsg))
            /\ make_err' = NotConfiguredMsg
            /\ UNCHANGED <<fs, make_pc, make_ret, prefixes2make, fps2copy>>
       ELSE \E prefixes \in {FilePrefixes(GlobViews(fs, maker.processed_input_dir,
                                                       maker.view_IDs, maker.tpas_extension))} :
            \E order \in Orderings(Range(prefixes)) : \E keyCheck \in BOOLEAN :
            \E plan \in {MakePlan(maker, fs, order, prefixes, keyCheck)} :
                      /\ fs' = ensure_path_exists(fs, maker.dataset_destination_dir)
                      /\ make_log' = LogAll(make_log, VERBOSE, plan.msgs)
                      /\ make_err' = plan.err
                      /\ make_ret' = plan.ret
                      /\ prefixes2make' = plan.list
                      /\ fps2copy' = plan.pairs
                      /\ make_pc' = IF plan.err # "none" THEN "raised"
                                    ELSE IF plan.ret = "False" THEN "returned"
                                    ELSE "copying"
    /\ UNCHANGED <<VERBOSE, fnVars, config_ok, sampleVars, prepVars, maker>>

\* one shutil.copy2(src, dst) of the loop at lines 941-943
MakeCopyStep ==
    /\ make_pc = "copying"
    /\ fps2copy # <<>>
    /\ LET src == Head(fps2copy)[1]
           dst == Head(fps2copy)[2]
       IN  IF ViewExists(fs, src)
           THEN /\ fs' = copy2(fs, src, dst)
                /\ fps2copy' = Tail(fps2copy)
                /\ UNCHANGED <<make_pc, make_err>>
           ELSE /\ make_err' = "FileNotFoundError"
                /\ make_pc' = "raised"
                /\ UNCHANGED <<fs, fps2copy>>
    /\ UNCHANGED <<VERBOSE, fnVars, calls, config_ok, make_log, sampleVars, prepVars, maker, make_ret,
                   prefixes2make>>

\* lines 944-945: the log line and self._write_nfo()
MakeWriteNfo ==
    /\ make_pc = "copying"
    /\ fps2copy = <<>>
    /\ make_log' = Log(make_log, VERBOSE, PlainMsg("Writing nfo, labels and json files..."))
    /\ fs' = [fs EXCEPT ![maker.dataset_destination_dir].nfo = File(MakerNfo)]
    /\ make_pc' = "labels"
    /\ UNCHANGED <<VERBOSE, fnVars, calls, config_ok, sampleVars, prepVars, maker, make_err, make_ret,
                   prefixes2make, fps2copy>>

\* lines 946-948: self._copy_labels_file(), the log line and return True
MakeCopyLabels ==
    /\ make_pc = "labels"
    /\ fs' = [fs EXCEPT ![maker.dataset_destination_dir].labels =
                            fs[maker.labels_filepath[1]].labels]
    /\ make_log' = Log(make_log, VERBOSE, PlainMsg("OK"))
    /\ make_ret' = "True"
    /\ make_pc' = "returned"
    /\ UNCHANGED <<VERBOSE, fnVars, calls, config_ok, sampleVars, prepVars, maker, make_err, prefixes2make,
                   fps2copy>>

\* the process dies inside make()
MakeCrash ==
    /\ make_pc \in {"copying", "labels"}
    /\ make_pc' = "crashed"
    /\ UNCHANGED <<VERBOSE, fnVars, calls, config_ok, fs, make_log, sampleVars, prepVars, maker, make_err,
                   make_ret, prefixes2make, fps2copy>>

\* the configuration files handed to TPA_Dataset_Maker.config
GoodMakerConfig ==
    [dataset_destination_dir |-> "dataset", view_IDs |-> ViewIDs,
     processed_input_dir |-> "processed", labels_filepath |-> <<"processed", LabelsName>>,
     tpas_extension |-> Ext, MAKE |-> 1, PREPARE |-> 0]

\* a configuration file that names the raw directory, which holds no tpa.nfo,
\* as processed_input_dir
UnpreparedDirConfig == [GoodMakerConfig EXCEPT !["processed_input_dir"] = "raw"]

MakerConfigFiles ==
    { GoodMakerConfig,
      UnpreparedDirConfig,
      Restrict(GoodMakerConfig, DOMAIN GoodMakerConfig \ {"labels_filepath"}),
      [GoodMakerConfig EXCEPT !["MAKE"] = 0],
      [GoodMakerConfig EXCEPT !["PREPARE"] = 1] }

\* an aligned recording in the processed directory
ProcessedRecording == [arr |-> <<1>>, ts |-> <<0>>]

\* what the processed directory and the labels file hold for one prefix: no
\* file; all view files but the last one (with the label 1); or all view files
\* with no label entry, with the label "", "x", 0 or 1, or with the label 1
\* under a legacy key <prefix>ID0
PrefixChoices ==
    {"absent", "incomplete", "none", "empty", "text", "zero", "one", "legacy"}

ProcessedNames(p, choice) ==
    {ViewFileName(PrefixName(p), ViewName(v), Ext) :
        v \in 1..(IF choice = "absent" THEN 0
                  ELSE IF choice = "incomplete" THEN NumViews - 1 ELSE NumViews)}

Labelled(pc) == {p \in DOMAIN pc : pc[p] \notin {"absent", "none"}}

LabelKey(p, choice) ==
    IF choice = "legacy" THEN PrefixName(p) \o ID \o <<"0">> ELSE PrefixName(p)

LabelValue(choice) ==
    IF choice = "empty" THEN JStr("")
    ELSE IF choice = "text" THEN JStr("x")
    ELSE IF choice = "zero" THEN JInt(0)
    ELSE JInt(1)

LabelsFile(pc) ==
    [k \in {LabelKey(p, pc[p]) : p \in Labelled(pc)} |->
        LabelValue(pc[CHOOSE p \in Labelled(pc) : LabelKey(p, pc[p]) = k])]

ProcessedDir(pc, nfo, labels) ==
    [exists |-> TRUE,
     views |-> [n \in UNION {ProcessedNames(p, pc[p]) : p \in DOMAIN pc} |->
                  ProcessedRecording],
     nfo |-> nfo, labels |-> labels, make_config |-> NoFile]

\* the contents of tpa.nfo and of the labels file that config() refuses:
\* tpa.nfo absent, without the ALIGNED key or with ALIGNED 0, or no labels file
RefusedMarkers ==
    LET pc == [p \in 1..MaxProcPrefixes |-> "one"]
    IN  {<<pc, nfo, File(LabelsFile(pc))>> :
            nfo \in {NoFile, File([ALIGNED |-> 0]), File(MakerNfo)}}
        \cup {<<pc, File(PreparerNfo), NoFile>>}

\* a TPA_Dataset_Maker right after construction, over a processed directory
\* that config() refuses or one as prepare() leaves it, with the labels edited;
\* the raw directory is absent or still holds the unaligned recordings
MakeInit ==
    /\ VERBOSE \in BOOLEAN
    /\ calls = 0
    /\ config_ok = FALSE
    /\ fn_in = <<>> /\ fn_out = <<>>
    /\ make_log = NoFile
    /\ \/ \E r \in RefusedMarkers :
            fs = [d \in Dirs |->
                    IF d = "processed" THEN ProcessedDir(r[1], r[2], r[3]) ELSE AbsentDir]
       \/ \E pc \in [1..MaxProcPrefixes -> PrefixChoices] :
            fs = [d \in Dirs |->
                    IF d = "processed"
                    THEN ProcessedDir(pc, File(PreparerNfo), File(LabelsFile(pc)))
                    ELSE AbsentDir]
       \/ \E pc \in {[p \in 1..MaxProcPrefixes |-> "one"]} :
            fs = [d \in Dirs |->
                    IF d = "processed"
                    THEN ProcessedDir(pc, File(PreparerNfo), File(LabelsFile(pc)))
                    ELSE IF d = "raw"
                    THEN [EmptyDir EXCEPT
                             !.views = RawDir([p \in 1..MaxProcPrefixes |-> "all"])]
                    ELSE AbsentDir]
    /\ sample = NoSample /\ sample_pc = "idle" /\ w_idx = 1 /\ sample_err = "none"
    /\ last_align = NoAlign
    /\ NoPreparer
    /\ MakerConstructed

MakeNext ==
    \/ \E json \in MakerConfigFiles : MakerConfig(json)
    \/ MakeCall
    \/ MakeCopyStep
    \/ MakeWriteNfo
    \/ MakeCopyLabels
    \/ MakeCrash

SpecMake == MakeInit /\ [][MakeNext]_vars

\* either manager, each over its own inputs
Init == PrepareInit \/ MakeInit
Next == PrepareNext \/ MakeNext
Spec == Init /\ [][Next]_vars

\* ===================================================================
\* Properties of the timestamp matcher and of the Sample variants (SpecSample)

MinLen(tss) == MinOf({Len(tss[i]) : i \in 1..Len(tss)})

\* C6: for N >= 1 nonempty timestamp sequences match_timesteps returns N index
\* sequences, each as long as the shortest input, and every index returned for
\* sequence i is a position of sequence i (0 <= index < len(sequence i)).
C6_LengthsAndRange ==
    last_align.in # <<>> =>
        /\ Len(last_align.out) = Len(last_align.in)
        /\ \A i \in 1..Len(last_align.in) :
             /\ Len(last_align.out[i]) = MinLen(last_align.in)
             /\ \A k \in 1..Len(last_align.out[i]) :
                  /\ 0 <= last_align.out[i][k]
                  /\ last_align.out[i][k] < Len(last_align.in[i])

\* match_timesteps has run on sequences of different lengths, and the longer
\* one lost a position
C6_Witness ==
    /\ Len(last_align.in) = 2
    /\ Len(last_align.in[1]) > Len(last_align.in[2])
    /\ Len(last_align.out[1]) < Len(last_align.in[1])

\* C7 as stated: every input sequence of minimal length receives the identity
\* indices 0, 1, ..., len-1.
C7_EveryShortestIsIdentity ==
    Len(last_align.in) >= 2 =>
        \A i \in 1..Len(last_align.in) :
            Len(last_align.in[i]) = MinLen(last_align.in)
                => last_align.out[i] = [k \in 1..MinLen(last_align.in) |-> k - 1]

\* C7 amended: the first input sequence of minimal length (the reference)
\* receives the identity indices 0, 1, ..., len-1.
C7_FirstShortestIsIdentity ==
    Len(last_align.in) >= 2 =>
        \A i \in 1..Len(last_align.in) :
            (/\ Len(last_align.in[i]) = MinLen(last_align.in)
             /\ \A j \in 1..(i - 1) : Len(last_align.in[j]) > MinLen(last_align.in))
                => last_align.out[i] = [k \in 1..MinLen(last_align.in) |-> k - 1]

\* two sequences of the same minimal length: the first one keeps the identity,
\* the second one does not
C7_Witness ==
    /\ Len(last_align.in) = 2
    /\ Len(last_align.in[1]) = Len(last_align.in[2])
    /\ last_align.out[1] = [k \in 1..Len(last_align.in[1]) |-> k - 1]
    /\ last_align.out[2] # [k \in 1..Len(last_align.in[2]) |-> k - 1]

\* C8: after align_timesteps(reset_T0=True) on a data-backed sample the minimum
\* over all views of the view's first timestamp is exactly 0.
C8_ResetT0MinIsZero ==
    (sample.kind = "data" /\ last_align.reset_T0) =>
        /\ \E i \in 1..Len(sample.timestamps) : sample.timestamps[i][1] = 0
        /\ \A i \in 1..Len(sample.timestamps) : sample.timestamps[i][1] >= 0

\* a sample of two views, none of which started at time 0, has been aligned
\* with reset_T0
C8_Witness ==
    /\ sample.kind = "data" /\ last_align.reset_T0
    /\ Len(last_align.in) = 2
    /\ last_align.in[1][1] > 0
    /\ last_align.in[2][1] > 0

\* C9: on a filepath-backed sample every call of write() and of
\* align_timesteps() raises, and leaves the sample (arrays, timestamps, ids)
\* and the files on disk unchanged.
C9_ReadOnlySample ==
    [][((SampleWrite \/ \E call \in {"noarg", "reset_T0=True", "reset_T0=False"} :
                             SampleAlign(call))
         /\ sample.kind = "filepaths")
        => (sample_err' # "none" /\ sample' = sample /\ fs' = fs /\ sample_pc' = "idle")]_vars

\* write() or align_timesteps() has raised on a filepath-backed sample
C9_Witness ==
    /\ sample.kind = "filepaths"
    /\ sample_err \in {"Exception", "TypeError"}
    /\ sample = TPA_Sample_from_filepaths(fs, sample.filepaths)

\* ===================================================================
\* Properties of the Preparer and of the Dataset Maker

\* the prefixes named in the directories of the model
RawUniverse == {PrefixName(p) : p \in 1..MaxRawPrefixes}
ProcUniverse == {PrefixName(p) : p \in 1..MaxProcPrefixes}

AllViewNames(q) == {ViewFileName(q, ViewName(v), Ext) : v \in 1..NumViews}

\* the prefixes of a universe with at least one view file / with a file for
\* every declared view in directory d
PresentPrefixes(d, universe) ==
    {q \in universe : AllViewNames(q) \cap DOMAIN fs[d].views # {}}
CompletePrefixes(d, universe) ==
    {q \in universe : AllViewNames(q) \subseteq DOMAIN fs[d].views}

\* the labels file of the processed directory with every key <prefix>ID...
\* renamed to <prefix>
IntendedLabels == NormalizedLabels(Content(fs["processed"].labels))

\* the label entry of the prefix is missing, the empty string, or no integer
InvalidLabel(q) ==
    \/ q \notin DOMAIN IntendedLabels
    \/ IntendedLabels[q] = JStr("")
    \/ IntendedLabels[q].type # "int"

\* the dataset directory holds no view file, no tpa.nfo and no labels.json
NothingWritten ==
    /\ DOMAIN fs["dataset"].views = {}
    /\ ~Exists(fs["dataset"].nfo)
    /\ ~Exists(fs["dataset"].labels)

\* make() has been entered by a configured Dataset Maker
MakeEntered == make_pc \in {"copying", "labels", "returned", "raised", "crashed"}

\* C1: make() never copies a file of a prefix whose normalized label entry is
\* missing, is the empty string, or is not an integer (the dataset directory
\* is empty before the call, so every view file in it was copied by the call).
C1_NoInvalidLabelCopied ==
    MakeEntered =>
        \A q \in ProcUniverse :
            InvalidLabel(q) => AllViewNames(q) \cap DOMAIN fs["dataset"].views = {}

\* C2: if every candidate prefix fails the completeness or the label
\* validation, make() returns False, copies no file and writes neither
\* tpa.nfo nor labels.json into the dataset directory.
C2_AllFailReturnsFalse ==
    (/\ MakeEntered
     /\ \A q \in PresentPrefixes("processed", ProcUniverse) :
           q \notin CompletePrefixes("processed", ProcUniverse) \/ InvalidLabel(q))
        => (make_pc = "returned" /\ make_ret = "False" /\ NothingWritten)

\* C3: in both stages, whenever tpa.nfo exists in the destination directory
\* every other output of the stage has been written: the view files of every
\* prefix of the working list, labels.json, and for prepare() make_config.json.
C3_MarkerWrittenLast ==
    /\ (prep_pc # "absent" /\ Exists(fs["processed"].nfo)) =>
          /\ \A i \in 1..Len(prefixes2process) :
                AllViewNames(prefixes2process[i]) \subseteq DOMAIN fs["processed"].views
          /\ Exists(fs["processed"].labels)
          /\ Exists(fs["processed"].make_config)
    /\ (make_pc # "absent" /\ Exists(fs["dataset"].nfo)) =>
          /\ \A i \in 1..Len(prefixes2make) :
                AllViewNames(prefixes2make[i]) \subseteq DOMAIN fs["dataset"].views
          /\ Exists(fs["dataset"].labels)

\* the processed directory does not pass the preconditions of config():
\* tpa.nfo absent, ALIGNED missing or falsy, or no labels file
Refused ==
    \/ ~Exists(fs["processed"].nfo)
    \/ PROCESSED_OK_KEY \notin DOMAIN Content(fs["processed"].nfo)
    \/ Content(fs["processed"].nfo)[PROCESSED_OK_KEY] = 0
    \/ ~Exists(fs["processed"].labels)

\* C4: when tpa.nfo of the processed directory is absent, or its ALIGNED flag
\* is missing or falsy, or the labels file does not exist, every config() on
\* a fresh Dataset Maker raises and leaves it unconfigured, a following make()
\* raises, and nothing is created in the dataset directory.
C4_ConfigPreconditions ==
    (make_pc # "absent" /\ Refused) =>
        /\ ~maker.configured
        /\ make_pc = "idle"
        /\ calls > 0 => make_err # "none"
        /\ fs["dataset"] = AbsentDir

\* config() with a valid configuration file has raised on a refused processed
\* directory, and the make() that followed has raised as well
C4_Witness ==
    /\ make_pc = "idle" /\ Refused
    /\ calls = 2
    /\ DOMAIN maker.json = DOMAIN GoodMakerConfig
    /\ maker.json["MAKE"] = 1 /\ maker.json["PREPARE"] = 0
    /\ make_err = "Configure with config() first"
    /\ fs["dataset"] = AbsentDir

\* C5: after prepare() completes, the prefixes written to the processed
\* directory are exactly the raw prefixes with a file for every declared view,
\* each with one aligned file per view; labels.json maps exactly those
\* prefixes to ""; tpa.nfo holds ALIGNED = 1.  Incomplete groups cause no
\* error: prepare() only raises when there is no complete group and the
\* processed directory does not exist (open() of tpa.nfo fails).
C5_PrepareCompleteGroups ==
    /\ prep_pc = "done" =>
          /\ DOMAIN fs["processed"].views =
                UNION {AllViewNames(q) : q \in CompletePrefixes("raw", RawUniverse)}
          /\ \A q \in CompletePrefixes("raw", RawUniverse) :
                \A n1, n2 \in AllViewNames(q) :
                    Len(fs["processed"].views[n1].ts) = Len(fs["processed"].views[n2].ts)
          /\ fs["processed"].labels =
                File([q \in CompletePrefixes("raw", RawUniverse) |-> JStr("")])
          /\ fs["processed"].nfo = File([ALIGNED |-> 1])
          /\ prep_err = "none"
    /\ prep_pc = "raised" =>
          /\ CompletePrefixes("raw", RawUniverse) = {}
          /\ ~fs["processed"].exists

\* prepare() has completed on a raw directory with a complete and an
\* incomplete group
C5_Witness ==
    /\ prep_pc = "done"
    /\ CompletePrefixes("raw", RawUniverse) # {}
    /\ PresentPrefixes("raw", RawUniverse) # CompletePrefixes("raw", RawUniverse)
    /\ Exists(fs["processed"].make_config)

\* C10: on a manager on which no config() call has succeeded, prepare() and
\* make() raise "Configure with config() first" and create no directory and
\* no file.
C10_NotConfigured ==
    [][/\ (~config_ok /\ PrepareCall) =>
            (prep_err' = "Configure with config() first" /\ fs' = fs /\ prep_pc' = "idle")
       /\ (~config_ok /\ MakeCall) =>
            (make_err' = "Configure with config() first" /\ fs' = fs /\ make_pc' = "idle")]_vars

\* make() has raised the error on a Dataset Maker whose only config() call
\* failed, over a processed directory that holds a complete labelled sample
C10_Witness ==
    /\ make_pc = "idle" /\ ~config_ok /\ calls = 2
    /\ maker.json # EmptyFn
    /\ make_err = "Configure with config() first"
    /\ CompletePrefixes("processed", ProcUniverse) # {}
    /\ fs["dataset"] = AbsentDir

\* ===================================================================
\* Further properties of the Dataset Maker

\* the prefixes with a view file in the dataset directory
CopiedPrefixes == PresentPrefixes("dataset", ProcUniverse)

\* C11: after a successful make() the labels.json of the dataset directory is
\* the filtered labels file: its keys are exactly the prefixes whose view
\* files were copied, each mapped to an integer label.
C11_FilteredLabelsCopied ==
    (make_pc = "returned" /\ make_ret = "True") =>
        /\ Exists(fs["dataset"].labels)
        /\ DOMAIN Content(fs["dataset"].labels) = CopiedPrefixes
        /\ \A q \in DOMAIN Content(fs["dataset"].labels) :
              Content(fs["dataset"].labels)[q].type = "int"

\* ===================================================================
\* _remove_missing_views called on its own

\* longest flat list of prefixes handed to _remove_missing_views
MaxFiles == 5

\* a state in which no sample and no manager exists and no file is on disk
NoObjects ==
    /\ VERBOSE = FALSE
    /\ calls = 0
    /\ config_ok = FALSE
    /\ make_log = NoFile
    /\ fs = [d \in Dirs |-> AbsentDir]
    /\ sample = NoSample /\ sample_pc = "idle" /\ w_idx = 1 /\ sample_err = "none"
    /\ last_align = NoAlign
    /\ NoPreparer
    /\ NoMaker

\* the flat lists of prefixes: one element per file found by glob
FlatPrefixLists ==
    UNION {[1..n -> {PrefixName(p) : p \in 1..MaxRawPrefixes}] : n \in 0..MaxFiles}

\* self.view_IDs with 1 to NumViews + 1 declared views
DeclaredViews == {[i \in 1..n |-> ViewName(i)] : n \in 1..(NumViews + 1)}

\* prefixes, list(set(prefixes)) in any order, and self.view_IDs
FilterInit ==
    /\ NoObjects
    /\ \E prefixes \in FlatPrefixLists : \E order \in Orderings(Range(prefixes)) :
       \E view_IDs \in DeclaredViews :
            fn_in = [prefixes |-> prefixes, prefixes2filter |-> order, view_IDs |-> view_IDs]
    /\ fn_out = <<>>

\* self._remove_missing_views(prefixes, prefixes2filter)
RemoveMissingViews ==
    /\ fn_out = <<>>
    /\ fn_out' = remove_missing_views(fn_in.view_IDs, fn_in.prefixes, fn_in.prefixes2filter)
    /\ UNCHANGED <<VERBOSE, calls, config_ok, fs, make_log, sampleVars, prepVars, makerVars,
                   fn_in>>

SpecFilter == FilterInit /\ [][RemoveMissingViews]_vars

\* C12: called with the distinct elements of prefixes as candidates,
\* _remove_missing_views returns exactly the candidates that occur in prefixes
\* at least as often as there are declared views, each once, and never raises.
C12_KeepsCompleteCandidates ==
    fn_out # <<>> =>
        /\ fn_out.err = "none"
        /\ Range(fn_out.list) =
              {q \in Range(fn_in.prefixes) :
                  Count(fn_in.prefixes, q) >= Len(fn_in.view_IDs)}
        /\ Len(fn_out.list) = Cardinality(Range(fn_out.list))

\* counts s1: 3, s2: 2 with 3 declared views have been reduced to s1
C12_Witness ==
    /\ fn_out # <<>>
    /\ Len(fn_in.view_IDs) = 3
    /\ Count(fn_in.prefixes, PrefixName(1)) = 3
    /\ Count(fn_in.prefixes, PrefixName(2)) = 2
    /\ fn_out.list = <<PrefixName(1)>>

\* ===================================================================
\* Eligibility and error recovery in make()

\* the prefix has every view file in the processed directory and an integer
\* label under its own name or under a legacy key
Eligible(q) ==
    /\ q \in CompletePrefixes("processed", ProcUniverse)
    /\ q \in DOMAIN IntendedLabels
    /\ IntendedLabels[q].type = "int"

\* C13: a make() that returns True has copied all view files of every prefix
\* that has a file for every declared view and whose normalized label entry
\* is an integer, whatever the integer.
C13_EligibleCopied ==
    (make_pc = "returned" /\ make_ret = "True") =>
        \A q \in ProcUniverse :
            Eligible(q) => AllViewNames(q) \subseteq DOMAIN fs["dataset"].views

\* C14: label problems are recovered locally: over a labels file that is a
\* JSON object with plain prefixes as keys, a configured make() never ends
\* with an exception, whatever labels are missing, empty or not integers.
C14_LabelProblemsRecovered ==
    (MakeEntered /\ LegacyKeys(Content(fs["processed"].labels)) = {}) =>
        (make_pc # "raised" /\ make_err = "none")

\* ===================================================================
\* Nearest-neighbour matching (SpecSample)

\* C15: match_timesteps takes the first input sequence of minimal length as
\* reference; for every other sequence s and every reference position k it
\* returns the smallest 0-based index j at which |reference[k] - s[j]| is
\* minimal over s, each reference point on its own.
C15_NearestFirstOccurrence ==
    last_align.in # <<>> =>
        \A r \in 1..Len(last_align.in) :
            (/\ Len(last_align.in[r]) = MinLen(last_align.in)
             /\ \A i \in 1..(r - 1) : Len(last_align.in[i]) > MinLen(last_align.in))
            => \A i \in (1..Len(last_align.in)) \ {r} :
                  /\ Len(last_align.out[i]) = Len(last_align.in[r])
                  /\ \A k \in 1..Len(last_align.in[r]) :
                        LET t == last_align.in[r][k]
                            s == last_align.in[i]
                            j == last_align.out[i][k] + 1
                        IN  /\ j \in 1..Len(s)
                            /\ \A n \in 1..Len(s) : Abs(t - s[j]) <= Abs(t - s[n])
                            /\ \A n \in 1..(j - 1) : Abs(t - s[n]) > Abs(t - s[j])

\* a reference point with two equally near timestamps in the other sequence
\* has been matched to the first of them
C15_Witness ==
    /\ Len(last_align.in) = 2
    /\ Len(last_align.in[1]) = 1 /\ Len(last_align.in[2]) = 2
    /\ Abs(last_align.in[1][1] - last_align.in[2][1])
          = Abs(last_align.in[1][1] - last_align.in[2][2])
    /\ last_align.out[2] = <<0>>

\* ===================================================================
\* Reconfiguration of the Dataset Maker

\* the directory passes the checks of config(): tpa.nfo exists with a truthy
\* ALIGNED flag
VerifiedDir(d) ==
    /\ NfoExists(fs, d)
    /\ PROCESSED_OK_KEY \in DOMAIN Content(fs[d].nfo)
    /\ Content(fs[d].nfo)[PROCESSED_OK_KEY] # 0

\* the attributes config() assigns, and the configured flag
PublicFields(m) ==
    <<m.dataset_destination_dir, m.view_IDs, m.processed_input_dir, m.labels_filepath,
      m.tpas_extension, m.configured>>

\* make() is past its configuration check and copies from processed_input_dir
\* a directory that no config() can have verified
C16_CopiesFromUnverifiedDir ==
    /\ make_pc \in {"copying", "labels"}
    /\ fps2copy # <<>> \/ DOMAIN fs["dataset"].views # {}
    /\ ~VerifiedDir(maker.processed_input_dir)

\* C16: whenever make() is past its configuration check and copies files,
\* processed_input_dir is a directory with tpa.nfo and a truthy ALIGNED flag
\* and the labels file exists; and a config() call that raises leaves the
\* attributes of the manager and its configured flag as they were.
C16_FailedConfigChangesNothing ==
    /\ [](~C16_CopiesFromUnverifiedDir)
    /\ [][(\E json \in MakerConfigFiles : MakerConfig(json)) /\ make_err' # "none"
             => PublicFields(maker') = PublicFields(maker)]_vars

\* ===================================================================
\* The run log

\* the lines of make.log
LogLines == IF Exists(make_log) THEN Content(make_log) ELSE <<>>

\* C17: with VERBOSE the log of a manager is append-only after its
\* construction: no step removes or changes a line already written, and when
\* prepare() has returned the file still holds the line prepare() logged
\* before its loop.
C17_LogAppendOnly ==
    /\ [][(VERBOSE /\ Exists(make_log)) =>
             /\ Exists(make_log')
             /\ Len(Content(make_log')) >= Len(Content(make_log))
             /\ SubSeq(Content(make_log'), 1, Len(Content(make_log))) = Content(make_log)]_vars
    /\ []((VERBOSE /\ prep_pc = "done") =>
             \E i \in 1..Len(LogLines) :
                 LogLines[i] = PlainMsg("Reading, aligning and removing T0 from samples..."))

\* ===================================================================
\* File names built and parsed back

\* longest prefix, view id and extension of a built file name
MaxNameLen == 2

\* the strings of length lo..MaxNameLen over the characters cs
Strings(cs, lo) == UNION {[1..n -> cs] : n \in lo..MaxNameLen}

\* a prefix, a view id and an extension without path separator
NamesInit ==
    /\ NoObjects
    /\ \E prefix \in Strings({"a", "I", "D", "."}, 0) :
       \E view_id \in Strings({"1", "I", "D", "."}, 1) :
       \E extension \in Strings({"t", "."}, 1) :
            fn_in = [prefix |-> prefix, view_id |-> view_id, extension |-> extension]
    /\ fn_out = <<>>

\* the file name as make_filepaths, prepare() and make() build it, parsed by
\* _TPA_get_file_prefix and _read_ID, and the name rebuilt from the parsed prefix
BuildAndParse ==
    /\ fn_out = <<>>
    /\ \E n \in {ViewFileName(fn_in.prefix, fn_in.view_id, fn_in.extension)} :
         fn_out' = [name |-> n,
                    prefix |-> TPA_get_file_prefix(<<"raw", n>>),
                    id |-> read_ID(<<"raw", n>>),
                    rebuilt |-> ViewFileName(TPA_get_file_prefix(<<"raw", n>>),
                                             fn_in.view_id, fn_in.extension)]
    /\ UNCHANGED <<VERBOSE, calls, config_ok, fs, make_log, sampleVars, prepVars, makerVars,
                   fn_in>>

SpecNames == NamesInit /\ [][BuildAndParse]_vars

\* C18: the file named {prefix}ID{view_id}.{extension} is parsed back by
\* _TPA_get_file_prefix to exactly prefix and by _read_ID to exactly view_id,
\* and the name rebuilt from the parsed prefix is that of the same file.
C18_ParseInvertsBuild ==
    fn_out # <<>> =>
        /\ fn_out.prefix = fn_in.prefix
        /\ fn_out.id = fn_in.view_id
        /\ fn_out.rebuilt = fn_out.name

====
